---- MODULE Spec2Model ----
(***************************************************************************)
(* The socket worker of the p2p layer (src/unnamed/part_000): connection   *)
(* admission (handleHandshake), raw frame validation (handlePayload,       *)
(* hasAdditionalProperties), request authorization (handleEmit), dispatch  *)
(* (handleConnection) and the penalty table (ipLastError).                 *)
(*                                                                         *)
(* Every `await this.sendToMasterAsync(...)` is a suspension point: the    *)
(* code before it and the code after it are separate atomic actions, and   *)
(* the coordinator's reply (a value, or a rejection of the promise) is an  *)
(* input of the second one.                                                *)
(***************************************************************************)
EXTENDS Integers, Sequences, FiniteSets, TLC

VARIABLES
    config,       \* this.config: what p2p.utils.getConfig answered at startup
    now,          \* Date.now(), in milliseconds
    ticks,        \* how many times the clock has advanced
    nextPurge,    \* when the setInterval callback of run() is next due
    ipLastError,  \* this.ipLastError: IP -> time of the last violation, 0 = no such key
    conns,        \* connection slot -> one connection attempt and its socket
    emits,        \* task slot -> one invocation of handleEmit
    appReady,     \* the coordinator's answer to p2p.utils.isAppReady
    violatedAt,   \* history: IP -> time of its last setErrorForIpAndTerminate, 0 = never
    purgedSince   \* history: IP -> the table was purged after that violation

vars == <<config, now, ticks, nextPurge, ipLastError, conns, emits, appReady,
          violatedAt, purgedSince>>

----------------------------------------------------------------------------
(* Bounds of the model.                                                    *)

MaxConns == 3
MaxTasks == 2
MaxTicks == 2
MaxSubnetPeers == 1

Conns == 1..MaxConns
Tasks == 1..MaxTasks

----------------------------------------------------------------------------
(* Program constants.                                                      *)

MINUTE_IN_MILLISECONDS == 1000 * 60
HOUR_IN_MILLISECONDS == MINUTE_IN_MILLISECONDS * 60

\* `timeNow - ws._lastPingTime < 1` compares seconds; the model keeps
\* milliseconds, so the window is 1000 of them.
PingWindow == 1000

\* req.event.length > 128
MaxEventLength == 128

\* message.length < 10
MinMessageLength == 10

----------------------------------------------------------------------------
(* Addresses.  An IPv4 address is its four octets; cidr(`${ip}/24`) of the *)
(* ip package is the network address of the /24.                           *)

IPs == { <<10, 0, 0, 1>>, <<10, 0, 0, 2>>, <<10, 0, 1, 1>>, <<10, 0, 1, 2>> }

cidr24(ip) == <<ip[1], ip[2], ip[3], 0>>

\* What loadConfiguration may store in this.config: the static blacklist
\* and the maximum of connections of one /24.
Configurations ==
    { [blacklist |-> { <<10, 0, 1, 2>> }, maxSameSubnetPeers |-> m] : m \in 0..MaxSubnetPeers }

\* this.handlers after loadHandlers: `p2p.${version}.${handler}`, each kept
\* as the segments that event.split(".") yields.
handlers == { <<"p2p", "peer", "getPeers">>,
              <<"p2p", "peer", "postBlock">>,
              <<"p2p", "peer", "postTransactions">>,
              <<"p2p", "internal", "emitEvent">> }

\* requestSchemas: version -> the handlers that have a schema.
requestSchemas == [ peer |-> {"getPeers", "postBlock", "postTransactions"},
                    internal |-> {"emitEvent"} ]

----------------------------------------------------------------------------
(* JavaScript values, as far as the worker looks at them: `typeof v` and   *)
(* the truthiness of v.                                                    *)

JV(t, truthy) == [t |-> t, truthy |-> truthy]

Absent == JV("undefined", FALSE)

\* The four keys a headers object may carry, and the type of each.
HeaderType == ("version" :> "string") @@ ("port" :> "number") @@
              ("height" :> "number") @@ ("Content-Type" :> "string")

HeaderKeys == DOMAIN HeaderType

\* The keys a headers object of the model has: the four, and one more.
ModelHeaderKeys == HeaderKeys \cup {"foo"}

\* data.headers: its type, its truthiness, and the value under each key
\* (Absent: the object has no such key).
Headers(t, truthy, fields) == [t |-> t, truthy |-> truthy, fields |-> fields]

NoFields == [k \in ModelHeaderKeys |-> Absent]

\* data.data: its type, its truthiness, and whether it satisfies the schema
\* of the event's version and handler (what ajv.validate answers for it).
Payload(t, truthy, valid) == [t |-> t, truthy |-> truthy, valid |-> valid]

\* parsed.data: its type, whether it is null, its keys other than data and
\* headers, and the two values.
Data(t, isNull, extraKeys, data, headers) ==
    [t |-> t, isNull |-> isNull, extraKeys |-> extraKeys, data |-> data, headers |-> headers]

\* parsed.event: its type and, for a string, what event.split(".") yields.
Event(t, segs) == [t |-> t, segs |-> segs]

\* JSON.parse(message): event, data, cid and the other top-level keys.
Envelope(event, data, cid, extraKeys) ==
    [event |-> event, data |-> data, cid |-> cid, extraKeys |-> extraKeys]

\* Object.keys(object.data)
DataKeys(d) == (IF d.data.t # "undefined" THEN {"data"} ELSE {})
               \cup (IF d.headers.t # "undefined" THEN {"headers"} ELSE {})
               \cup d.extraKeys

\* Object.keys(object.data.headers)
HeadersKeys(h) == { k \in ModelHeaderKeys : h.fields[k] # Absent }

\* The length of the event string: the segments and the dots between them.
RECURSIVE SegsLength(_)
SegsLength(segs) == IF segs = <<>> THEN 0
                    ELSE Len(Head(segs)) + (IF Len(segs) > 1 THEN 1 ELSE 0) + SegsLength(Tail(segs))

IsDisconnect(event) == event.t = "string" /\ event.segs = <<"#disconnect">>
IsHandshake(event) == event.t = "string" /\ event.segs = <<"#handshake">>

----------------------------------------------------------------------------
(* hasAdditionalProperties(object).  The answer is "true", "false" or      *)
(* "throws" (a TypeError the caller catches); ajv tells whether the        *)
(* payload was handed to ajv.validate on the way.                          *)

HapResult(result, ajv) == [result |-> result, ajv |-> ajv]

\* `(headers.version && typeof headers.version !== "string") || ...`
HeaderTypeMismatch(h) ==
    \E k \in HeaderKeys : h.fields[k].truthy /\ h.fields[k].t # HeaderType[k]

\* lines 127-145: the headers, once the payload has passed.
hasAdditionalHeaderProperties(object, ajv) ==
    LET h == object.data.headers
    IN  IF ~h.truthy THEN HapResult("false", ajv)
        ELSE IF HeadersKeys(h) \ HeaderKeys # {} THEN HapResult("true", ajv)
        ELSE IF HeaderTypeMismatch(h) THEN HapResult("true", ajv)
        ELSE HapResult("false", ajv)

hasAdditionalProperties(object) ==
    LET event    == object.event.segs
        reserved == IsHandshake(object.event) \/ IsDisconnect(object.event)
        d        == object.data
    IN  IF object.extraKeys # {} THEN HapResult("true", FALSE)
        ELSE IF ~reserved /\ Len(event) # 3 THEN HapResult("true", FALSE)
        \* Object.keys(null) and null.data throw
        ELSE IF d.isNull THEN HapResult("throws", FALSE)
        ELSE IF ~reserved /\ DataKeys(d) \ {"data", "headers"} # {} THEN HapResult("true", FALSE)
        ELSE IF ~d.data.truthy THEN hasAdditionalHeaderProperties(object, FALSE)
        \* requestSchemas[version] is undefined: reading [handler] of it throws
        ELSE IF Len(event) < 2 \/ event[2] \notin DOMAIN requestSchemas
             THEN HapResult("throws", FALSE)
        \* no schema for the handler: nothing is validated
        ELSE IF Len(event) < 3 \/ event[3] \notin requestSchemas[event[2]]
             THEN hasAdditionalHeaderProperties(object, FALSE)
        ELSE IF ~d.data.valid THEN HapResult("true", TRUE)
        ELSE hasAdditionalHeaderProperties(object, TRUE)

----------------------------------------------------------------------------
(* The "message" listener of handlePayload.  ws is the socket's own state  *)
(* (_disconnected, _handshake, _lastPingTime); the answer is the state it  *)
(* leaves, whether setErrorForIpAndTerminate was called, whether ajv saw   *)
(* the payload, and the branch taken.                                      *)

Verdict(ws, violation, ajv, branch) ==
    [ws |-> ws, violation |-> violation, ajv |-> ajv, branch |-> branch]

\* `typeof parsed.cid !== "number" && (parsed.event === "#disconnect" &&
\*  typeof parsed.cid !== "undefined")`
cidMismatch(parsed) ==
    parsed.cid.t # "number" /\ (IsDisconnect(parsed.event) /\ parsed.cid.t # "undefined")

\* lines 85-94: a parsed object that is neither control event.
onStructuredCall(ws, parsed) ==
    IF parsed.event.t # "string" \/ parsed.data.t # "object"
    THEN Verdict(ws, TRUE, FALSE, "call")
    ELSE LET h == hasAdditionalProperties(parsed)
         IN  IF h.result # "false" THEN Verdict(ws, TRUE, h.ajv, "call")
             ELSE IF cidMismatch(parsed) THEN Verdict(ws, TRUE, h.ajv, "call")
             ELSE IF parsed.event.segs \notin handlers THEN Verdict(ws, TRUE, h.ajv, "call")
             ELSE Verdict(ws, FALSE, h.ajv, "call")

\* Any two heartbeats taken, however close.
onHeartbeatUnpaced(ws, t) ==
    Verdict([ws EXCEPT !.lastPingTime = t], FALSE, FALSE, "heartbeat")

\* lines 66-70; t: new Date().getTime(), in milliseconds
onHeartbeat(ws, t) ==
    Verdict([ws EXCEPT !.lastPingTime = t],
            ws.lastPingTime # 0 /\ t - ws.lastPingTime < PingWindow,
            FALSE, "heartbeat")

\* The first handshake-announce taken for a repeated one.
onHandshakeNever(ws) ==
    Verdict([ws EXCEPT !.handshake = TRUE], TRUE, FALSE, "handshake")

\* lines 81-84
onHandshake(ws) ==
    Verdict([ws EXCEPT !.handshake = TRUE], ws.handshake, FALSE, "handshake")

\* lines 65-98: a frame on a socket whose _disconnected is not set.
\* message: [text, length, parses, json]
onOpenMessage(ws, message, t) ==
    IF message.text = "#2" THEN onHeartbeat(ws, t)
    ELSE IF message.length < MinMessageLength THEN Verdict(ws, TRUE, FALSE, "short")
    ELSE IF ~message.parses THEN Verdict(ws, TRUE, FALSE, "unparsed")
    ELSE IF IsDisconnect(message.json.event)
    THEN Verdict([ws EXCEPT !.disconnected = TRUE], FALSE, FALSE, "disconnect")
    ELSE IF IsHandshake(message.json.event) THEN onHandshake(ws)
    ELSE onStructuredCall(ws, message.json)

\* The disconnect flag not looked at.
onMessageUnflagged(ws, message, t) == onOpenMessage(ws, message, t)

\* lines 62-99
onMessage(ws, message, t) ==
    IF ws.disconnected THEN Verdict(ws, TRUE, FALSE, "disconnected")
    ELSE onOpenMessage(ws, message, t)

----------------------------------------------------------------------------
(* The coordinator's registries, which the worker only asks about.         *)

\* The IPs p2p.utils.isForgerAuthorized answers authorized = true for.
Forgers == { <<10, 0, 0, 1>> }

\* The IPs p2p.internal.isPeerOrForger answers isPeerOrForger = true for.
PeersOrForgers == { <<10, 0, 0, 1>>, <<10, 0, 0, 2>> }

----------------------------------------------------------------------------
(* State.                                                                  *)

NoIp == <<0, 0, 0, 0>>

\* ws._disconnected, ws._handshake, ws._lastPingTime of a fresh socket
NewWs == [disconnected |-> FALSE, handshake |-> FALSE, lastPingTime |-> 0]

\* st: "none"       no attempt yet
\*     "hs"         handleHandshake awaits p2p.internal.isBlockedByRateLimit
\*     "hung"       handleHandshake ended with neither destroy() nor next()
\*     "rejected"   req.socket.destroy() in handleHandshake
\*     "live"       next() was called: a pending or established client
\*     "terminated" ws.terminate() / req.socket.terminate()
\*     "closed"     the peer closed the transport
\* end: history: what ended the attempt or the socket ("" while nothing has):
\*      "penalized" (handleHandshake), "emit" (handleEmit), or the branch
\*      of handlePayload, "validated" if ajv had seen the frame's payload
Conn(st, ip, ws, end) == [st |-> st, ip |-> ip, ws |-> ws, end |-> end]

NoConn == Conn("none", NoIp, NewWs, "")

\* What handleEmit reads of req: req.event, typeof req.data, and of
\* req.data.data and req.data.headers the type, the truthiness and whether
\* the payload satisfies its schema.
Req(event, data) ==
    [event |-> event,
     data  |-> [t |-> data.t, isNull |-> data.isNull,
                data |-> data.data,
                headers |-> JV(data.headers.t, data.headers.truthy)]]

NoReq == Req(Event("undefined", <<>>),
             Data("undefined", FALSE, {}, Payload("undefined", FALSE, FALSE),
                  Headers("undefined", FALSE, NoFields)))

\* pc: "idle"          the slot is unused
\*     "rate"          awaits p2p.internal.getRateLimitStatus
\*     "ready"         awaits p2p.utils.isAppReady
\*     "forger"        awaits p2p.utils.isForgerAuthorized
\*     "peerOrForger"  awaits p2p.internal.isPeerOrForger
\*     "next"          next() was called: the event goes to the socket's handler
\*     "notReady"      next(new Error("App is not ready."))
\*     "terminated"    req.socket.terminate() and return
\*     "failed"        the promise of handleEmit rejected: neither of the above
\* acceptNewPeer: p2p.internal.acceptNewPeer was sent
\* from: history: the pc before this one ("" at the start)
Emit(pc, conn, ip, req, acceptNewPeer, from) ==
    [pc |-> pc, conn |-> conn, ip |-> ip, req |-> req, acceptNewPeer |-> acceptNewPeer,
     from |-> from]

NoEmit == Emit("idle", 0, NoIp, NoReq, FALSE, "")

InFlight == {"rate", "ready", "forger", "peerOrForger"}

\* The worker has been up for 59 minutes, with no violation so far: the
\* interval that run() set is due in one minute.
Init ==
    /\ config \in Configurations
    /\ now = 2 * HOUR_IN_MILLISECONDS - MINUTE_IN_MILLISECONDS
    /\ ticks = 0
    /\ nextPurge = 2 * HOUR_IN_MILLISECONDS
    /\ ipLastError = [ip \in IPs |-> 0]
    /\ conns = [c \in Conns |-> NoConn]
    /\ emits = [t \in Tasks |-> NoEmit]
    /\ appReady = FALSE
    /\ violatedAt = [ip \in IPs |-> 0]
    /\ purgedSince = [ip \in IPs |-> FALSE]

----------------------------------------------------------------------------
(* The penalty table.                                                      *)

\* A window read the wrong way round.
isPenalizedFlipped(table, ip, t) ==
    table[ip] # 0 /\ table[ip] < t - MINUTE_IN_MILLISECONDS

\* `this.ipLastError[ip] && this.ipLastError[ip] > Date.now() - MINUTE_IN_MILLISECONDS`
isPenalized(table, ip, t) ==
    table[ip] # 0 /\ table[ip] > t - MINUTE_IN_MILLISECONDS

\* The violation not recorded.
setErrorForIpDropped(table, ip, t) == table

\* The violation recorded for every address.
setErrorForIpOfAll(table, ip, t) == [i \in DOMAIN table |-> t]

\* `this.ipLastError[req.socket.remoteAddress] = Date.now()`
setErrorForIp(table, ip, t) == [table EXCEPT ![ip] = t]

\* ws.terminate(), req.socket.terminate(): a socket that is already gone
\* stays as it is.  No frame is delivered on a terminated socket, so what
\* its own properties held is dropped.
terminate(cs, c, why) ==
    IF cs[c].st = "live" THEN [cs EXCEPT ![c] = Conn("terminated", cs[c].ip, NewWs, why)]
    ELSE cs

----------------------------------------------------------------------------
(* Connection admission: handleHandshake.                                  *)

\* The clients and pending clients of the server in the /24 of ip.
sameSubnetSockets(cs, ip) ==
    { c \in Conns : cs[c].st = "live" /\ cidr24(cs[c].ip) = cidr24(ip) }

\* `sameSubnetSockets.length > this.config.maxSameSubnetPeers`
subnetFull(cfg, cs, ip) ==
    Cardinality(sameSubnetSockets(cs, ip)) > cfg.maxSameSubnetPeers

\* lines 167-173: up to the first await.
HandshakeStart(c, ip) ==
    /\ conns[c].st = "none"
    /\ \A d \in Conns : d < c => conns[d].st # "none"
    /\ conns' = [conns EXCEPT ![c] =
                    IF isPenalized(ipLastError, ip, now)
                    THEN Conn("rejected", ip, NewWs, "penalized")
                    ELSE Conn("hs", ip, NewWs, "")]
    /\ UNCHANGED <<config, now, ticks, nextPurge, ipLastError, emits, appReady,
                   violatedAt, purgedSince>>

\* The blacklist not read.
admissionOfAnyone(cfg, cs, ip, ok, blocked) ==
    IF ~ok THEN "hung"
    ELSE IF blocked THEN "rejected"
    ELSE IF subnetFull(cfg, cs, ip) THEN "rejected"
    ELSE "live"

\* What handleHandshake does with the answer of isBlockedByRateLimit:
\* ok = FALSE is a rejected promise, which nothing catches.
admission(cfg, cs, ip, ok, blocked) ==
    IF ~ok THEN "hung"
    ELSE IF blocked \/ ip \in cfg.blacklist THEN "rejected"
    ELSE IF subnetFull(cfg, cs, ip) THEN "rejected"
    ELSE "live"

\* lines 173-195: from the first await to the end.
HandshakeReply(c, ok, blocked) ==
    /\ conns[c].st = "hs"
    /\ conns' = [conns EXCEPT ![c].st = admission(config, conns, conns[c].ip, ok, blocked)]
    /\ UNCHANGED <<config, now, ticks, nextPurge, ipLastError, emits, appReady,
                   violatedAt, purgedSince>>

\* The peer closes the transport.
Close(c) ==
    /\ conns[c].st = "live"
    /\ conns' = [conns EXCEPT ![c] = Conn("closed", conns[c].ip, NewWs, "")]
    /\ UNCHANGED <<config, now, ticks, nextPurge, ipLastError, emits, appReady,
                   violatedAt, purgedSince>>

----------------------------------------------------------------------------
(* Request authorization: handleEmit, one operator per stretch of code     *)
(* between two awaits.  Each yields the pc the invocation goes to.         *)

\* lines 198-202
emitStart(req) ==
    IF req.event.t = "string" /\ SegsLength(req.event.segs) > MaxEventLength
    THEN "terminated" ELSE "rate"

\* lines 204-232: the answer of getRateLimitStatus, the shape of req.data
\* (reading .data of null throws before the try), the prefix.
emitAfterRate(req, ok, exceeded) ==
    IF ~ok THEN "failed"
    ELSE IF exceeded THEN "terminated"
    ELSE IF req.data.t # "object" THEN "terminated"
    ELSE IF req.data.isNull THEN "failed"
    ELSE IF req.data.data.t # "object" \/ req.data.headers.t # "object" THEN "terminated"
    ELSE IF req.event.t # "string" THEN "terminated"
    ELSE IF req.event.segs[1] # "p2p" THEN "terminated"
    ELSE "ready"

\* line 281, then next(): assigning to a property of null throws, and the
\* catch terminates.
emitFinish(req) == IF req.data.headers.truthy THEN "next" ELSE "terminated"

\* Not ready taken for one more reason to terminate.
emitAfterReadyTerminating(req, ok, ready) ==
    IF ~ok \/ ~ready THEN "terminated"
    ELSE IF Len(req.event.segs) >= 2 /\ req.event.segs[2] = "internal" THEN "forger"
    ELSE "accept"

\* lines 234-276: the answer of isAppReady and the branch on the version.
\* "accept" stands for lines 267-272 followed by emitFinish.
emitAfterReady(req, ok, ready) ==
    LET segs    == req.event.segs
        version == IF Len(segs) >= 2 THEN segs[2] ELSE ""
        handler == IF Len(segs) >= 3 THEN segs[3] ELSE ""
    IN  IF ~ok THEN "terminated"
        ELSE IF ~ready THEN "notReady"
        ELSE IF version = "internal" THEN "forger"
        ELSE IF version = "peer"
        THEN IF handler \in {"postTransactions", "postBlock"} THEN "peerOrForger"
             ELSE IF handler \in requestSchemas.peer /\ ~req.data.data.valid THEN "terminated"
             ELSE "accept"
        ELSE "terminated"

\* The answer read for its arrival only.
emitAfterForgerUnchecked(req, ok, authorized) ==
    IF ~ok THEN "terminated" ELSE emitFinish(req)

\* lines 241-248
emitAfterForger(req, ok, authorized) ==
    IF ~ok THEN "terminated"
    ELSE IF ~authorized THEN "terminated"
    ELSE emitFinish(req)

\* The answer read for its arrival only.
emitAfterPeerOrForgerUnchecked(req, ok, isPeerOrForger) ==
    IF ~ok THEN "terminated" ELSE "accept"

\* lines 253-261
emitAfterPeerOrForger(req, ok, isPeerOrForger) ==
    IF ~ok THEN "terminated"
    ELSE IF ~isPeerOrForger THEN "terminated"
    ELSE "accept"

\* The task after a stretch that yielded `to`.
step(e, to) ==
    IF to = "accept"
    THEN [e EXCEPT !.pc = emitFinish(e.req), !.acceptNewPeer = TRUE, !.from = e.pc]
    ELSE [e EXCEPT !.pc = to, !.from = e.pc]

\* The sockets after it: "terminated" is req.socket.terminate().
sockets(cs, e, to) ==
    IF step(e, to).pc = "terminated" THEN terminate(cs, e.conn, "emit") ELSE cs

RateReply(t, ok, exceeded) ==
    /\ emits[t].pc = "rate"
    /\ LET to == emitAfterRate(emits[t].req, ok, exceeded)
       IN  /\ emits' = [emits EXCEPT ![t] = step(emits[t], to)]
           /\ conns' = sockets(conns, emits[t], to)
    /\ UNCHANGED <<config, now, ticks, nextPurge, ipLastError, appReady, violatedAt, purgedSince>>

ReadyReply(t, ok) ==
    /\ emits[t].pc = "ready"
    /\ LET to == emitAfterReady(emits[t].req, ok, appReady)
       IN  /\ emits' = [emits EXCEPT ![t] = step(emits[t], to)]
           /\ conns' = sockets(conns, emits[t], to)
    /\ UNCHANGED <<config, now, ticks, nextPurge, ipLastError, appReady, violatedAt, purgedSince>>

ForgerReply(t, ok) ==
    /\ emits[t].pc = "forger"
    /\ LET to == emitAfterForger(emits[t].req, ok, emits[t].ip \in Forgers)
       IN  /\ emits' = [emits EXCEPT ![t] = step(emits[t], to)]
           /\ conns' = sockets(conns, emits[t], to)
    /\ UNCHANGED <<config, now, ticks, nextPurge, ipLastError, appReady, violatedAt, purgedSince>>

PeerOrForgerReply(t, ok) ==
    /\ emits[t].pc = "peerOrForger"
    /\ LET to == emitAfterPeerOrForger(emits[t].req, ok, emits[t].ip \in PeersOrForgers)
       IN  /\ emits' = [emits EXCEPT ![t] = step(emits[t], to)]
           /\ conns' = sockets(conns, emits[t], to)
    /\ UNCHANGED <<config, now, ticks, nextPurge, ipLastError, appReady, violatedAt, purgedSince>>

\* handleConnection: the socket's handler of a registered event sends the
\* call on to the coordinator once next() lets the event through.
Dispatched(e) == e.pc = "next" /\ e.req.event.segs \in handlers

\* The coordinator's subsystems have come up.
AppBecomesReady ==
    /\ ~appReady
    /\ appReady' = TRUE
    /\ UNCHANGED <<config, now, ticks, nextPurge, ipLastError, conns, emits, violatedAt, purgedSince>>

----------------------------------------------------------------------------
(* Raw frames.  A message is its text (for a frame that is not an          *)
(* envelope), its length, whether JSON.parse accepts it and what it        *)
(* yields.                                                                 *)

NoPayload == Payload("undefined", FALSE, FALSE)
GoodPayload == Payload("object", TRUE, TRUE)
BadPayload == Payload("object", TRUE, FALSE)

NoHeaders == Headers("undefined", FALSE, NoFields)
NullHeaders == Headers("object", FALSE, NoFields)
HeadersOf(fields) == Headers("object", TRUE, fields)

\* {"version": "2.0.0", "port": 4002}
GoodFields == [NoFields EXCEPT !["version"] = JV("string", TRUE), !["port"] = JV("number", TRUE)]
GoodHeaders == HeadersOf(GoodFields)

NoEnvelope == Envelope(Event("undefined", <<>>),
                       Data("undefined", FALSE, {}, NoPayload, NoHeaders), Absent, {})

Raw(text) == [text |-> text, length |-> Len(text), parses |-> FALSE, json |-> NoEnvelope]

\* An envelope on the wire: {"event":"<event>", ...} is at least 12
\* characters longer than its event.
Json(envelope) ==
    [text |-> "", length |-> 12 + SegsLength(envelope.event.segs),
     parses |-> TRUE, json |-> envelope]

\* {"event": <segs joined>, "data": {"data": payload, "headers": headers}, "cid": 1}
Call(segs, payload, headers) ==
    Envelope(Event("string", segs), Data("object", FALSE, {}, payload, headers),
             JV("number", TRUE), {})

Control(name) ==
    Envelope(Event("string", <<name>>), Data("object", FALSE, {}, NoPayload, NoHeaders),
             Absent, {})

GetPeers == <<"p2p", "peer", "getPeers">>
PostBlock == <<"p2p", "peer", "postBlock">>
PostTransactions == <<"p2p", "peer", "postTransactions">>
EmitEvent == <<"p2p", "internal", "emitEvent">>

Heartbeat == Raw("#2")

\* The last one is JSON, of an array.
ShortFrames == { Raw(""), Raw("#1"), [Raw("[1,2,3]") EXCEPT !.parses = TRUE] }

Unparsed == Raw("not a json text")

\* The last two carry a top-level key "x".
ControlFrames == { Json(Control("#handshake")), Json(Control("#disconnect")),
                   Json([Control("#handshake") EXCEPT !.extraKeys = {"x"}]),
                   Json([Control("#disconnect") EXCEPT !.extraKeys = {"x"}]) }

\* Calls that handlePayload lets through.
GoodCalls == { Json(Call(segs, GoodPayload, GoodHeaders)) : segs \in handlers }

\* Calls with one thing wrong each.
BadCalls ==
    LET base == Call(GetPeers, GoodPayload, GoodHeaders)
        with(fields) == Call(GetPeers, GoodPayload, HeadersOf(fields))
    IN  { Json(e) : e \in {
            [base EXCEPT !.event = Event("number", <<>>)],
            [base EXCEPT !.data = Data("string", FALSE, {}, NoPayload, NoHeaders)],
            [base EXCEPT !.data = Data("object", TRUE, {}, NoPayload, NoHeaders)],
            [base EXCEPT !.extraKeys = {"x"}],
            [base EXCEPT !.event = Event("string", <<"p2p", "peer">>)],
            [base EXCEPT !.event = Event("string", <<"p2p", "peer", "getPeers", "extra">>)],
            [base EXCEPT !.event = Event("string", <<"p2p", "peer", "unknown">>)],
            [base EXCEPT !.event = Event("string", <<"p2p", "foo", "bar">>)],
            [base EXCEPT !.data.extraKeys = {"x"}],
            Call(GetPeers, BadPayload, GoodHeaders),
            Call(GetPeers, NoPayload, NoHeaders),
            Call(GetPeers, GoodPayload, NullHeaders),
            with([GoodFields EXCEPT !["foo"] = JV("number", TRUE)]),
            with([GoodFields EXCEPT !["version"] = JV("object", TRUE)]),
            with([GoodFields EXCEPT !["port"] = JV("string", FALSE)]),
            with([GoodFields EXCEPT !["height"] = JV("object", FALSE)]),
            [base EXCEPT !.cid = JV("string", TRUE)],
            Call(GetPeers, BadPayload, with([GoodFields EXCEPT !["foo"] = JV("number", TRUE)]).data.headers)
          } }

Frames == {Heartbeat, Unparsed} \cup ShortFrames \cup ControlFrames \cup GoodCalls \cup BadCalls

----------------------------------------------------------------------------
(* A raw frame arrives on the socket of c.  The listener that              *)
(* handlePayload prepended runs first.  A frame it does not answer with    *)
(* terminate() goes on to the server's own listener, which, for an event   *)
(* that is not one of its control events, invokes the MIDDLEWARE_EMIT      *)
(* middleware: handleEmit, here up to its first await.                     *)

\* The message carries an event for the middleware.
IsEmit(message) ==
    /\ message.length >= MinMessageLength
    /\ message.parses
    /\ message.json.event.t # "undefined"
    /\ ~IsHandshake(message.json.event)
    /\ ~IsDisconnect(message.json.event)

\* The task slots handleEmit may take: those with no invocation in flight.
FreeTasks == { t \in Tasks : emits[t].pc \notin InFlight }

\* The slot the next invocation takes: an unused one before one whose
\* invocation has ended, the lowest of them.
FirstFree ==
    LET idle == { t \in FreeTasks : emits[t].pc = "idle" }
        from == IF idle # {} THEN idle ELSE FreeTasks
    IN  CHOOSE t \in from : \A u \in from : t <= u

Message(c, message) ==
    /\ conns[c].st = "live"
    /\ LET v      == onMessage(conns[c].ws, message, now)
           ip     == conns[c].ip
           after  == [conns EXCEPT ![c].ws = v.ws]
           why    == IF v.ajv THEN "validated" ELSE v.branch
           cs     == IF v.violation THEN terminate(after, c, why) ELSE after
           starts == IsEmit(message) /\ ~v.violation
           req    == Req(message.json.event, message.json.data)
           e      == Emit(emitStart(req), c, ip, req, FALSE, "")
       IN  /\ starts => FreeTasks # {}
           /\ ipLastError' = IF v.violation THEN setErrorForIp(ipLastError, ip, now)
                             ELSE ipLastError
           /\ violatedAt' = IF v.violation THEN [violatedAt EXCEPT ![ip] = now]
                            ELSE violatedAt
           /\ purgedSince' = IF v.violation THEN [purgedSince EXCEPT ![ip] = FALSE]
                             ELSE purgedSince
           /\ emits' = IF starts THEN [emits EXCEPT ![FirstFree] = e] ELSE emits
           /\ conns' = IF starts THEN sockets(cs, e, e.pc) ELSE cs
    /\ UNCHANGED <<config, now, ticks, nextPurge, appReady>>

\* lines 56-61: a ping or a pong frame of the peer.
PingPong(c) ==
    /\ conns[c].st = "live"
    /\ conns' = terminate(conns, c, "ping")
    /\ ipLastError' = setErrorForIp(ipLastError, conns[c].ip, now)
    /\ violatedAt' = [violatedAt EXCEPT ![conns[c].ip] = now]
    /\ purgedSince' = [purgedSince EXCEPT ![conns[c].ip] = FALSE]
    /\ UNCHANGED <<config, now, ticks, nextPurge, emits, appReady>>

----------------------------------------------------------------------------
(* Time.                                                                   *)

\* The steps the clock takes.
Steps == { 500, MINUTE_IN_MILLISECONDS - 500 }

\* The clock advances, never past a purge that is due.
Tick(d) ==
    /\ ticks < MaxTicks
    /\ now + d <= nextPurge
    /\ now' = now + d
    /\ ticks' = ticks + 1
    /\ UNCHANGED <<config, nextPurge, ipLastError, conns, emits, appReady, violatedAt, purgedSince>>

\* The table left as it is.
purgeNothing(table) == table

\* `this.ipLastError = {}`
purge(table) == [ip \in DOMAIN table |-> 0]

\* `setInterval(() => (this.ipLastError = {}), HOUR_IN_MILLISECONDS)`
Purge ==
    /\ now >= nextPurge
    /\ ipLastError' = purge(ipLastError)
    /\ nextPurge' = nextPurge + HOUR_IN_MILLISECONDS
    /\ purgedSince' = [ip \in IPs |-> violatedAt[ip] # 0]
    /\ UNCHANGED <<config, now, ticks, conns, emits, appReady, violatedAt>>

----------------------------------------------------------------------------

\* The frames of the admission runs: one that is a violation, and the
\* handshake-announce that makes a pending client an established one.
AdmissionFrames == { Unparsed, Json(Control("#handshake")) }

NextAdmission ==
    \/ \E c \in Conns, ip \in IPs : HandshakeStart(c, ip)
    \/ \E c \in Conns, ok \in BOOLEAN, blocked \in BOOLEAN : HandshakeReply(c, ok, blocked)
    \/ \E c \in Conns, message \in AdmissionFrames : Message(c, message)
    \/ \E d \in Steps : Tick(d)
    \/ Purge

SpecAdmission == Init /\ [][NextAdmission]_vars

\* The runs of one connection and the frames on it, with no answer of the
\* coordinator to a call.
NextEnvelope ==
    \/ \E ip \in IPs : HandshakeStart(1, ip)
    \/ \E ok \in BOOLEAN, blocked \in BOOLEAN : HandshakeReply(1, ok, blocked)
    \/ \E message \in Frames : Message(1, message)
    \/ Tick(500)

SpecEnvelope == Init /\ [][NextEnvelope]_vars

\* The frames of the runs that follow calls: every call handlePayload lets
\* through, and frames that end the connection.
CallFrames == GoodCalls \cup { Json(Call(GetPeers, NoPayload, NoHeaders)),
                               Json(Call(GetPeers, GoodPayload, NullHeaders)),
                               Unparsed, Json(Control("#disconnect")) }

\* The runs of one connection and the calls on it.
NextCalls ==
    \/ \E ip \in IPs : HandshakeStart(1, ip)
    \/ \E ok \in BOOLEAN, blocked \in BOOLEAN : HandshakeReply(1, ok, blocked)
    \/ Close(1)
    \/ \E message \in CallFrames : Message(1, message)
    \/ \E t \in Tasks, ok \in BOOLEAN, exceeded \in BOOLEAN : RateReply(t, ok, exceeded)
    \/ \E t \in Tasks, ok \in BOOLEAN : ReadyReply(t, ok)
    \/ \E t \in Tasks, ok \in BOOLEAN : ForgerReply(t, ok)
    \/ \E t \in Tasks, ok \in BOOLEAN : PeerOrForgerReply(t, ok)
    \/ AppBecomesReady

SpecCalls == Init /\ [][NextCalls]_vars

\* The frames of the runs that follow the penalty table.
PenaltyFrames == { Json(Call(GetPeers, GoodPayload, GoodHeaders)),
                   Json(Call(EmitEvent, GoodPayload, GoodHeaders)),
                   Unparsed }

\* The runs of one connection through admission, frames, calls and purge.
NextPenalty ==
    \/ \E ip \in IPs : HandshakeStart(1, ip)
    \/ \E ok \in BOOLEAN, blocked \in BOOLEAN : HandshakeReply(1, ok, blocked)
    \/ \E message \in PenaltyFrames : Message(1, message)
    \/ PingPong(1)
    \/ \E t \in Tasks, ok \in BOOLEAN, exceeded \in BOOLEAN : RateReply(t, ok, exceeded)
    \/ \E t \in Tasks, ok \in BOOLEAN : ReadyReply(t, ok)
    \/ \E t \in Tasks, ok \in BOOLEAN : ForgerReply(t, ok)
    \/ AppBecomesReady
    \/ \E d \in Steps : Tick(d)
    \/ Purge

SpecPenalty == Init /\ [][NextPenalty]_vars

Next ==
    \/ \E c \in Conns, ip \in IPs : HandshakeStart(c, ip)
    \/ \E c \in Conns, ok \in BOOLEAN, blocked \in BOOLEAN : HandshakeReply(c, ok, blocked)
    \/ \E c \in Conns : Close(c)
    \/ \E c \in Conns : PingPong(c)
    \/ \E c \in Conns, message \in Frames : Message(c, message)
    \/ \E t \in Tasks, ok \in BOOLEAN, exceeded \in BOOLEAN : RateReply(t, ok, exceeded)
    \/ \E t \in Tasks, ok \in BOOLEAN : ReadyReply(t, ok)
    \/ \E t \in Tasks, ok \in BOOLEAN : ForgerReply(t, ok)
    \/ \E t \in Tasks, ok \in BOOLEAN : PeerOrForgerReply(t, ok)
    \/ AppBecomesReady
    \/ \E d \in Steps : Tick(d)
    \/ Purge

Spec == Init /\ [][Next]_vars

----------------------------------------------------------------------------
(* Connection admission.                                                   *)

\* setErrorForIpAndTerminate ran for ip less than a minute ago, and the
\* table has not been purged since.
RecentViolation(ip) ==
    /\ violatedAt[ip] # 0
    /\ ~purgedSince[ip]
    /\ now - violatedAt[ip] < MINUTE_IN_MILLISECONDS

\* C1: a connection attempt of an IP with a violation less than 60 seconds
\* old and no purge since is rejected by handleHandshake before its first
\* await: the socket is destroyed, next() is not called and the coordinator
\* is not asked (the attempt never waits for isBlockedByRateLimit).
C1_RecentViolationRejected ==
    [][\A c \in Conns, ip \in IPs :
          (HandshakeStart(c, ip) /\ RecentViolation(ip)) => conns'[c].st = "rejected"]_vars

C1_Witness ==
    \E c \in Conns : /\ conns[c].st = "rejected"
                     /\ conns[c].end = "penalized"
                     /\ RecentViolation(conns[c].ip)

\* C2, as claimed: with as many clients and pending clients in the /24 of
\* the remote IP as maxSameSubnetPeers (one or more), an attempt that the
\* rate limiter does not block is rejected.
C2_FullSubnetRejects ==
    [][\A c \in Conns :
          ( /\ HandshakeReply(c, TRUE, FALSE)
            /\ config.maxSameSubnetPeers >= 1
            /\ Cardinality(sameSubnetSockets(conns, conns[c].ip)) = config.maxSameSubnetPeers )
          => conns'[c].st = "rejected"]_vars

\* C3, as claimed: no stage ends with neither a termination nor next():
\* no attempt is left hanging by handleHandshake and no invocation of
\* handleEmit ends by its promise rejecting.
C3_FailedCallTerminates ==
    /\ \A c \in Conns : conns[c].st # "hung"
    /\ \A t \in Tasks : emits[t].pc # "failed"

----------------------------------------------------------------------------
(* Request authorization.                                                  *)

IsInternal(e) == Len(e.req.event.segs) = 3 /\ e.req.event.segs[2] = "internal"

\* The socket of the invocation is gone.
Gone(cs, e) == cs[e.conn].st \in {"terminated", "closed"}

\* An earlier call of the same connection failed as not ready.
AfterNotReady(t) ==
    \E u \in Tasks \ {t} : emits[u].pc = "notReady" /\ emits[u].conn = emits[t].conn

\* C4: a call that reaches the readiness check while the coordinator
\* reports ready = false fails with the "not ready" error: next() gets the
\* error, no socket is terminated, no authorization oracle is asked, no
\* acceptNewPeer is sent, nothing is dispatched.  A later call of the same
\* connection, checked once the coordinator reports ready = true, goes on
\* to its authorization, and an unprivileged peer call with a valid payload
\* and headers is dispatched.
C4_NotReadyLeavesConnectionOpen ==
    [][\A t \in Tasks :
          LET e == emits[t]  f == emits'[t]
          IN  /\ (ReadyReply(t, TRUE) /\ ~appReady)
                    => /\ f.pc = "notReady"
                       /\ ~f.acceptNewPeer
                       /\ ~Dispatched(f)
                       /\ conns' = conns
              /\ (ReadyReply(t, TRUE) /\ appReady /\ AfterNotReady(t))
                    => /\ IsInternal(e) => f.pc = "forger"
                       /\ e.req.event.segs \in {PostBlock, PostTransactions}
                             => f.pc = "peerOrForger"
                       /\ ( /\ e.req.event.segs = GetPeers
                            /\ e.req.data.data.valid
                            /\ e.req.data.headers.truthy )
                          => (Dispatched(f) /\ conns' = conns)]_vars

C4_Witness ==
    \E t, u \in Tasks :
        /\ emits[u].pc = "notReady"
        /\ emits[t].conn = emits[u].conn
        /\ conns[emits[u].conn].st = "live"
        /\ Dispatched(emits[t])

\* C5, as claimed: every call p2p.internal.<handler> from an IP that is no
\* authorized forger, once handleEmit has ended for it with an outcome,
\* has ended with the connection terminated.
C5_UnauthorizedInternalTerminated ==
    \A t \in Tasks :
        (IsInternal(emits[t]) /\ emits[t].ip \notin Forgers
            /\ emits[t].pc \in {"next", "notReady", "terminated"})
        => emits[t].pc = "terminated"

\* C5, amended: such a call is never dispatched; it is terminated when the
\* coordinator answers isForgerAuthorized (with false) or fails to, which
\* it is asked whenever it reports ready = true at the readiness check.
C5_UnauthorizedInternalNeverDispatched ==
    [][\A t \in Tasks :
          LET e == emits[t]  f == emits'[t]
          IN  /\ (IsInternal(f) /\ f.ip \notin Forgers) => f.pc # "next"
              /\ (ReadyReply(t, TRUE) /\ appReady /\ IsInternal(e)) => f.pc = "forger"
              /\ \A ok \in BOOLEAN :
                    (ForgerReply(t, ok) /\ e.ip \notin Forgers)
                        => (f.pc = "terminated" /\ Gone(conns', e))]_vars

C5_Witness ==
    \E t \in Tasks :
        /\ IsInternal(emits[t])
        /\ emits[t].ip \notin Forgers
        /\ emits[t].pc = "terminated"
        /\ emits[t].from = "forger"
        /\ conns[emits[t].conn].end = "emit"

\* The handlers reserved to peers and forgers.
IsReserved(e) == e.req.event.segs \in {PostBlock, PostTransactions}

\* C6: a call p2p.peer.postBlock or p2p.peer.postTransactions from an IP
\* that is neither peer nor forger is never dispatched, and the answer
\* isPeerOrForger = false terminates the connection; from an IP that is one, with the app ready and the rate
\* limit not exceeded (the call has reached this check) and headers that
\* are an object, the answer true has the call dispatched.
C6_PostBlockNeedsPeerOrForger ==
    [][\A t \in Tasks :
          LET e == emits[t]  f == emits'[t]
          IN  /\ (IsReserved(f) /\ f.ip \notin PeersOrForgers) => ~Dispatched(f)
              /\ (ReadyReply(t, TRUE) /\ appReady /\ IsReserved(e))
                    => f.pc = "peerOrForger"
              /\ \A ok \in BOOLEAN :
                    (PeerOrForgerReply(t, ok) /\ e.ip \notin PeersOrForgers)
                        => (f.pc = "terminated" /\ Gone(conns', e))
              /\ (PeerOrForgerReply(t, TRUE) /\ e.ip \in PeersOrForgers
                     /\ e.req.data.headers.truthy)
                    => (Dispatched(f) /\ conns' = conns)]_vars

C6_Witness ==
    \E t \in Tasks :
        /\ IsReserved(emits[t])
        /\ emits[t].ip \in PeersOrForgers
        /\ emits[t].from = "peerOrForger"
        /\ Dispatched(emits[t])

\* C7, as claimed: no frame of a connection is processed while handleEmit
\* is still suspended on an earlier frame of the same connection.
C7_FramesOneAtATime ==
    [][\A c \in Conns, message \in Frames :
          Message(c, message)
              => ~\E t \in Tasks : emits[t].conn = c /\ emits[t].pc \in InFlight]_vars

\* C8, as claimed: a call that is suspended at a coordinator round trip when
\* its connection is terminated or closed is not dispatched afterwards.
C8_NoDispatchAfterTermination ==
    [][\A t \in Tasks :
          (emits[t].pc \in InFlight /\ Gone(conns, emits[t])) => ~Dispatched(emits'[t])]_vars

----------------------------------------------------------------------------
(* Frame validation.                                                       *)

\* The envelope fails one of the structural checks of the specification.
FailsStructure(p) ==
    \/ p.event.t # "string"
    \/ p.data.t # "object" \/ p.data.isNull
    \/ p.extraKeys # {}
    \/ Len(p.event.segs) # 3
    \/ DataKeys(p.data) \ {"data", "headers"} # {}
    \/ p.event.segs \notin handlers
    \/ /\ p.data.headers.t # "undefined"
       /\ \/ p.data.headers.t # "object" \/ ~p.data.headers.truthy
          \/ HeadersKeys(p.data.headers) \ HeaderKeys # {}
          \/ \E k \in HeaderKeys :
                /\ p.data.headers.fields[k] # Absent
                /\ p.data.headers.fields[k].t # HeaderType[k]

\* C9, as claimed: the payload of a frame that fails a structural check is
\* never handed to the schema validator.
C9_NoValidationOfMalformedFrame ==
    [][\A c \in Conns, message \in Frames :
          (Message(c, message) /\ IsEmit(message) /\ FailsStructure(message.json))
              => conns'[c].end # "validated"]_vars

\* C10: a frame shorter than 10 characters that is not "#2" terminates the
\* connection, whatever the socket's flags are, and sets the penalty table
\* entry of the connection's IP to the current time.
C10_ShortFrameIsViolation ==
    [][\A c \in Conns, message \in ShortFrames :
          Message(c, message)
              => /\ conns'[c].st = "terminated"
                 /\ ipLastError'[conns[c].ip] = now]_vars

C10_Witness ==
    \E c \in Conns : /\ conns[c].st = "terminated"
                     /\ conns[c].end = "short"
                     /\ ipLastError[conns[c].ip] = now

----------------------------------------------------------------------------
(* Heartbeats and control events.                                          *)

HandshakeFrame == Json(Control("#handshake"))
DisconnectFrame == Json(Control("#disconnect"))

\* C11: on a connection that has not announced its disconnect, a heartbeat
\* that arrives less than 1 second after the previous one terminates the
\* connection and records a violation; the first heartbeat, and one that
\* arrives 1 second or more after the previous one, leaves the connection
\* open, records nothing and becomes the last heartbeat.
C11_HeartbeatPacing ==
    [][\A c \in Conns :
          LET ws == conns[c].ws  ip == conns[c].ip
          IN  (Message(c, Heartbeat) /\ ~ws.disconnected)
              => IF ws.lastPingTime # 0 /\ now - ws.lastPingTime < 1000
                 THEN /\ conns'[c].st = "terminated"
                      /\ ipLastError'[ip] = now
                 ELSE /\ conns'[c].st = "live"
                      /\ conns'[c].ws.lastPingTime = now
                      /\ ipLastError' = ipLastError]_vars

C11_Witness ==
    \E c \in Conns : /\ conns[c].st = "terminated"
                     /\ conns[c].end = "heartbeat"
                     /\ ipLastError[conns[c].ip] = now

\* C12: on a connection that has not announced its disconnect, the first
\* "#handshake" leaves the connection open and records nothing; every
\* later "#handshake" of the connection terminates it and records a
\* violation for its IP.
C12_HandshakeOnce ==
    [][\A c \in Conns :
          LET ws == conns[c].ws  ip == conns[c].ip
          IN  /\ (Message(c, HandshakeFrame) /\ ~ws.disconnected /\ ~ws.handshake)
                 => /\ conns'[c].st = "live"
                    /\ conns'[c].ws.handshake
                    /\ ipLastError' = ipLastError
              /\ (Message(c, HandshakeFrame) /\ ws.handshake)
                 => /\ conns'[c].st = "terminated"
                    /\ ipLastError'[ip] = now]_vars

C12_Witness ==
    \E c \in Conns : /\ conns[c].st = "terminated"
                     /\ conns[c].end = "handshake"
                     /\ ipLastError[conns[c].ip] = now

----------------------------------------------------------------------------
(* The purge.                                                              *)

\* C13: the purge empties the whole penalty table, and a connection attempt
\* from an IP whose last violation has been followed by a purge and by no
\* new violation passes the penalty check of handleHandshake, however
\* recent that violation is.
C13_PurgeForgives ==
    [][/\ Purge => \A ip \in IPs : ipLastError'[ip] = 0
       /\ \A c \in Conns, ip \in IPs :
             (HandshakeStart(c, ip) /\ violatedAt[ip] # 0 /\ purgedSince[ip])
                 => conns'[c].st = "hs"]_vars

\* An attempt of the IP was rejected as penalized; a later one (attempts
\* take their slots in order) has passed the check after the purge, less
\* than 60 seconds after the violation.
C13_Witness ==
    \E c, d \in Conns :
        /\ conns[c].st = "rejected" /\ conns[c].end = "penalized"
        /\ c < d
        /\ conns[d].ip = conns[c].ip
        /\ conns[d].st = "hs"
        /\ purgedSince[conns[d].ip]
        /\ now - violatedAt[conns[d].ip] < MINUTE_IN_MILLISECONDS

\* C14: once a connection has sent "#disconnect", every frame it sends, of
\* any kind, terminates it and records a violation, at the first test of
\* the listener: the frame is neither parsed nor validated, and no call is
\* started for it.
C14_NothingAfterDisconnect ==
    [][\A c \in Conns, message \in Frames :
          (Message(c, message) /\ conns[c].ws.disconnected)
              => /\ conns'[c].st = "terminated"
                 /\ conns'[c].end = "disconnected"
                 /\ ipLastError'[conns[c].ip] = now
                 /\ emits' = emits]_vars

C14_Witness ==
    \E c \in Conns : /\ conns[c].st = "terminated"
                     /\ conns[c].end = "disconnected"
                     /\ ipLastError[conns[c].ip] = now

----------------------------------------------------------------------------
(* The shape of a structured call.                                         *)

\* C15, as claimed: a structured call whose cid is present and is not a
\* number terminates the connection and records a violation.
C15_CidIsNumber ==
    [][\A c \in Conns, message \in Frames :
          (Message(c, message) /\ IsEmit(message)
              /\ message.json.cid.t \notin {"undefined", "number"})
              => /\ conns'[c].st = "terminated"
                 /\ ipLastError'[conns[c].ip] = now]_vars

\* A header of the four is present with a value of another type.
WrongTypedHeader(p) ==
    /\ p.data.t = "object" /\ ~p.data.isNull
    /\ p.data.headers.t = "object" /\ p.data.headers.truthy
    /\ \E k \in HeaderKeys : /\ p.data.headers.fields[k] # Absent
                             /\ p.data.headers.fields[k].t # HeaderType[k]

\* C16, as claimed: a structured call with a header version, port, height
\* or Content-Type of another type than string, number, number, string,
\* whatever the value, terminates the connection; a call with the headers
\* {"version": "2.0.0", "port": 4002} does not.
C16_HeaderTypes ==
    [][\A c \in Conns, message \in Frames :
          /\ (Message(c, message) /\ IsEmit(message) /\ WrongTypedHeader(message.json))
                => conns'[c].st = "terminated"
          /\ (Message(c, message) /\ message \in GoodCalls /\ ~conns[c].ws.disconnected)
                => conns'[c].end # "call"]_vars

\* C17, as claimed: a parsed frame with a top-level key other than event,
\* data and cid, the control events included, terminates the connection
\* and records a violation.
C17_NoExtraTopLevelKey ==
    [][\A c \in Conns, message \in Frames :
          (Message(c, message) /\ message.parses /\ message.length >= MinMessageLength
              /\ message.json.extraKeys # {})
              => /\ conns'[c].st = "terminated"
                 /\ ipLastError'[conns[c].ip] = now]_vars

----------------------------------------------------------------------------
(* The penalty table.                                                      *)

\* The ways handlePayload ends a connection.
PayloadEnds ==
    {"disconnected", "heartbeat", "short", "unparsed", "handshake", "call", "validated", "ping"}

\* C18: the penalty table changes only when handlePayload classifies a
\* frame of a connection invalid, which sets the entry of that connection's
\* IP to the current time, changes no other entry and terminates the
\* connection, or when the purge empties it.  handleHandshake and
\* handleEmit leave it unchanged on every path, their rejections included.
C18_PenaltyWriters ==
    [][/\ ipLastError' # ipLastError
          => \/ /\ now >= nextPurge
                /\ \A ip \in IPs : ipLastError'[ip] = 0
             \/ \E c \in Conns :
                   /\ conns[c].st = "live"
                   /\ conns'[c].st = "terminated"
                   /\ conns'[c].end \in PayloadEnds
                   /\ ipLastError' = [ipLastError EXCEPT ![conns[c].ip] = now]
       /\ \A c \in Conns :
             (conns'[c] # conns[c] /\ (conns'[c].st = "rejected" \/ conns'[c].end = "emit"))
                 => ipLastError' = ipLastError
       /\ \A t \in Tasks : emits'[t] # emits[t] /\ emits[t].pc \in InFlight
             => ipLastError' = ipLastError]_vars

\* handleHandshake has rejected an attempt, or handleEmit has terminated a
\* connection, of an IP with no entry in the table.
C18_Witness ==
    \E c \in Conns :
        /\ \/ conns[c].st = "rejected" /\ conns[c].end = ""
           \/ conns[c].st = "terminated" /\ conns[c].end = "emit"
        /\ ipLastError[conns[c].ip] = 0
        /\ violatedAt[conns[c].ip] = 0

----------------------------------------------------------------------------
(* Admission, as a whole.                                                  *)

\* C19: an attempt is admitted only if its IP was not penalized at the
\* penalty check, the coordinator answered blocked = false, the IP is not
\* blacklisted and the connections of its /24 did not exceed
\* maxSameSubnetPeers; no connection of a blacklisted IP is ever open; an
\* attempt whose coordinator call returns ends in destroy() or in next().
C19_AdmissionChecks ==
    [][/\ \A c \in Conns, ip \in IPs :
             (HandshakeStart(c, ip) /\ isPenalized(ipLastError, ip, now))
                 => conns'[c].st = "rejected"
       /\ \A c \in Conns, ok \in BOOLEAN, blocked \in BOOLEAN :
             HandshakeReply(c, ok, blocked)
                 => /\ conns'[c].st = "live"
                       => /\ ok /\ ~blocked
                          /\ conns[c].ip \notin config.blacklist
                          /\ Cardinality(sameSubnetSockets(conns, conns[c].ip))
                                <= config.maxSameSubnetPeers
                    /\ ok => conns'[c].st \in {"rejected", "live"}
       /\ \A c \in Conns :
             conns'[c].st = "live" => conns'[c].ip \notin config.blacklist]_vars

\* An attempt of a blacklisted IP got past the penalty check and was
\* rejected; another attempt was admitted.
C19_Witness ==
    \E c, d \in Conns :
        /\ conns[c].st = "rejected" /\ conns[c].end = ""
        /\ conns[c].ip \in config.blacklist
        /\ conns[d].st = "live"

----------------------------------------------------------------------------
(* The notification of an accepted peer.                                   *)

\* C20, as claimed: p2p.internal.acceptNewPeer has been sent only for calls
\* of version peer that are dispatched: for no call that handleEmit
\* terminates, fails as not ready, or whose version is internal.
C20_AcceptNewPeerOnlyForDispatched ==
    \A t \in Tasks :
        emits[t].acceptNewPeer => (emits[t].pc = "next" /\ ~IsInternal(emits[t]))

====
